---- MODULE Spec2Model ----
(***************************************************************************)
(* Model of the spectrum analyser component (Source/MainComponent.h):      *)
(* the sample fifo and the single-slot frame handoff between the audio     *)
(* callback and the message-thread timer, and the tempered-scale bar       *)
(* table built by buildTemperedScale.                                      *)
(***************************************************************************)
EXTENDS Integers, Sequences, FiniteSets

(***************************************************************************)
(* Program constants.                                                      *)
(***************************************************************************)
fftOrder == 11
fftSize == 2 ^ fftOrder

\* Frequencies are floats in the source; the model keeps them in tenths of a
\* hertz, so minFreq = 20.0f is 20 * FreqUnit.
FreqUnit == 10
minFreq == 20 * FreqUnit
maxFreq == 22000 * FreqUnit

\* c0 * pow(root24, i) for i = 0, 1, ..., in tenths of a hertz, with
\* root24 = 2^(1/24) and c0 = 440 * root24^(-114) (about 16.35 Hz).  The
\* last entry is the first one above maxFreq.
NoteTable ==
    <<
       164, 168, 173, 178, 184, 189, 194, 200, 206, 212,
       218, 225, 231, 238, 245, 252, 260, 267, 275, 283,
       291, 300, 309, 318, 327, 337, 346, 357, 367, 378,
       389, 400, 412, 424, 437, 449, 462, 476, 490, 504,
       519, 534, 550, 566, 583, 600, 617, 635, 654, 673,
       693, 713, 734, 756, 778, 801, 824, 848, 873, 899,
       925, 952, 980, 1009, 1038, 1069, 1100, 1132, 1165, 1200,
       1235, 1271, 1308, 1346, 1386, 1427, 1468, 1511, 1556, 1601,
       1648, 1696, 1746, 1797, 1850, 1904, 1960, 2017, 2077, 2137,
       2200, 2264, 2331, 2399, 2469, 2542, 2616, 2693, 2772, 2853,
       2937, 3023, 3111, 3202, 3296, 3393, 3492, 3595, 3700, 3808,
       3920, 4035, 4153, 4275, 4400, 4529, 4662, 4798, 4939, 5084,
       5233, 5386, 5544, 5706, 5873, 6045, 6223, 6405, 6593, 6786,
       6985, 7189, 7400, 7617, 7840, 8070, 8306, 8549, 8800, 9058,
       9323, 9596, 9878, 10167, 10465, 10772, 11087, 11412, 11747, 12091,
       12445, 12810, 13185, 13571, 13969, 14378, 14800, 15233, 15680, 16139,
       16612, 17099, 17600, 18116, 18647, 19193, 19755, 20334, 20930, 21543,
       22175, 22824, 23493, 24182, 24890, 25619, 26370, 27143, 27938, 28757,
       29600, 30467, 31360, 32279, 33224, 34198, 35200, 36231, 37293, 38386,
       39511, 40668, 41860, 43087, 44349, 45649, 46986, 48363, 49780, 51239,
       52740, 54286, 55877, 57514, 59199, 60934, 62719, 64557, 66449, 68396,
       70400, 72463, 74586, 76772, 79021, 81337, 83720, 86173, 88698, 91298,
       93973, 96726, 99561, 102478, 105481, 108572, 111753, 115028, 118398, 121868,
       125439, 129114, 132898, 136792, 140800, 144926, 149172, 153544, 158043, 162674,
       167440, 172347, 177397, 182595, 187946, 193453, 199121, 204956, 210962, 217143,
       223506
    >>

NoteFreq(i) == NoteTable[i + 1]

(***************************************************************************)
(* Values the model draws its inputs from.                                 *)
(***************************************************************************)
\* Sample rates a device can report to prepareToPlay.
DeviceRates == {22050, 44100, 48000, 96000}
\* _sampleRate is not initialised by the constructor: when buildTemperedScale
\* runs before any prepareToPlay it reads an indeterminate double.
IndeterminateRates == DeviceRates \cup {0, -48000}
\* Values of the groupNotes argument.
GroupNotes == {1, 2, 3}
\* Calls of buildTemperedScale after the constructor's.
MaxRebuilds == 1

VARIABLES
    temperedScale,      \* std::vector<float> temperedScale
    allBars,            \* std::vector<Bar> allBars
    _sampleRate,        \* double _sampleRate
    builds              \* completed calls of buildTemperedScale, as
                        \* <<_sampleRate read, groupNotes>>, latest last

scaleVars == <<temperedScale, allBars, _sampleRate, builds>>

(***************************************************************************)
(* buildTemperedScale and freqToBin.                                       *)
(***************************************************************************)
Abs(x) == IF x < 0 THEN -x ELSE x

\* round (num / den) as the C library rounds: to nearest, halves away from zero.
Round(num, den) ==
    LET q == (Abs(num) \div Abs(den))
             + (IF 2 * (Abs(num) % Abs(den)) >= Abs(den) THEN 1 ELSE 0)
    IN  IF (num < 0) = (den < 0) THEN q ELSE -q

freqToBin(freq, sampleRate) ==
    IF sampleRate = 0
    THEN fftSize - 1        \* freq * fftSize / 0.0 is +inf, not < fftSize / 2
    ELSE LET bin == Round(freq * fftSize, sampleRate * FreqUnit)
         IN  IF bin < fftSize \div 2 THEN bin ELSE fftSize - 1

\* The number of iterations of the while loop of buildTemperedScale: the
\* first note whose frequency exceeds maxFreq ends it.
NoteCount ==
    CHOOSE n \in 0..(Len(NoteTable) - 1) :
        /\ NoteFreq(n) > maxFreq
        /\ \A i \in 0..(n - 1) : NoteFreq(i) <= maxFreq

\* One iteration of the while loop, for note i.
ScaleStep(scale, i, groupNotes) ==
    IF NoteFreq(i) >= minFreq /\ i % groupNotes = 0
    THEN Append(scale, NoteFreq(i))
    ELSE scale

\* Iterations lo .. hi - 1 of the while loop, in order (evaluated by halves).
RECURSIVE ScaleLoop(_, _, _, _)
ScaleLoop(scale, lo, hi, groupNotes) ==
    IF hi <= lo THEN scale
    ELSE IF hi = lo + 1 THEN ScaleStep(scale, lo, groupNotes)
    ELSE LET mid == (lo + hi) \div 2
             firstHalf == ScaleLoop(scale, lo, mid, groupNotes)
         IN  IF Len(firstHalf) >= 0
             THEN ScaleLoop(firstHalf, mid, hi, groupNotes)
             ELSE firstHalf

\* allBars[allBars.size() - nBars + iFactor].factor = (iFactor + 1) / nBars
\* for iFactor in 0 .. nBars - 1; a factor is kept as <<numerator, denominator>>.
SetFactors(bars, nBars) ==
    [m \in 1..Len(bars) |->
        IF m > Len(bars) - nBars
        THEN [bars[m] EXCEPT !.factor = <<m - (Len(bars) - nBars), nBars>>]
        ELSE bars[m]]

\* StartBin with the rule turned round: the bin after prevBin when the bar's
\* own bin is at most prevBin + 1, the bar's own bin otherwise.
StartBinForced(prevBin, bin) ==
    IF bin <= prevBin + 1 THEN prevBin + 1 ELSE bin

\* if (prevBin > 0 && prevBin + 1 <= bin) idx = prevBin + 1; else idx = bin;
StartBin(prevBin, bin) ==
    IF prevBin > 0 /\ prevBin + 1 <= bin THEN prevBin + 1 ELSE bin

\* One iteration of the for loop over temperedScale; st holds the loop's
\* locals prevBin, prevIdx, nBars and the vector allBars.
BarStep(st, scale, index, sampleRate) ==
    LET bin == freqToBin(scale[index + 1], sampleRate)
        idx == StartBin(st.prevBin, bin)
        sameIdx == idx = st.prevIdx
        bars == IF ~sameIdx /\ st.nBars > 1
                THEN SetFactors(st.bars, st.nBars)
                ELSE st.bars
        hasNext == index + 1 < Len(scale)
        nextBin == IF hasNext THEN freqToBin(scale[index + 2], sampleRate) ELSE bin
        prevBin == IF hasNext /\ nextBin - bin > 1
                   THEN bin + Round(nextBin - bin, 2)
                   ELSE bin
        endIdx == IF prevBin - idx > 0 THEN prevBin ELSE 0
    IN  [prevBin |-> prevBin,
         prevIdx |-> IF sameIdx THEN st.prevIdx ELSE idx,
         nBars   |-> IF sameIdx THEN st.nBars + 1 ELSE 1,
         bars    |-> Append(bars, [posX |-> index, dataIdx |-> idx,
                                   endIdx |-> endIdx, factor |-> <<0, 1>>])]

\* Iterations lo .. hi - 1 of the for loop, in order (evaluated by halves).
RECURSIVE BarLoop(_, _, _, _, _)
BarLoop(st, scale, lo, hi, sampleRate) ==
    IF hi <= lo THEN st
    ELSE IF hi = lo + 1 THEN BarStep(st, scale, lo, sampleRate)
    ELSE LET mid == (lo + hi) \div 2
             firstHalf == BarLoop(st, scale, lo, mid, sampleRate)
         IN  IF Len(firstHalf.bars) >= 0
             THEN BarLoop(firstHalf, scale, mid, hi, sampleRate)
             ELSE firstHalf

\* The vectors after buildTemperedScale(groupNotes) has run on the given ones.
ScaleAfterBuild(scale, groupNotes) == ScaleLoop(scale, 0, NoteCount, groupNotes)

BarsAfterBuild(scale, bars, sampleRate, groupNotes) ==
    BarLoop([prevBin |-> 0, prevIdx |-> 0, nBars |-> 0, bars |-> bars],
            ScaleAfterBuild(scale, groupNotes), 0,
            Len(ScaleAfterBuild(scale, groupNotes)), sampleRate).bars

buildTemperedScale(groupNotes) ==
    /\ Len(builds) <= MaxRebuilds
    /\ temperedScale' = ScaleAfterBuild(temperedScale, groupNotes)
    /\ allBars' = BarsAfterBuild(temperedScale, allBars, _sampleRate, groupNotes)
    /\ builds' = Append(builds, <<_sampleRate, groupNotes>>)
    /\ UNCHANGED _sampleRate

prepareToPlay(sampleRate) ==
    /\ _sampleRate' = sampleRate
    /\ UNCHANGED <<temperedScale, allBars, builds>>

\* The state the constructor leaves: buildTemperedScale(2) has run on empty
\* vectors with whatever _sampleRate held.
ScaleInit ==
    /\ _sampleRate \in IndeterminateRates
    /\ temperedScale = ScaleAfterBuild(<< >>, 2)
    /\ allBars = BarsAfterBuild(<< >>, << >>, _sampleRate, 2)
    /\ builds = << <<_sampleRate, 2>> >>


(***************************************************************************)
(* The sample fifo and the frame handoff.  The capture context is the      *)
(* audio callback (getNextAudioBlock calling pushNextSampleIntoFifo once   *)
(* per sample); the render context is the message thread (timerCallback    *)
(* and paint).  The two run concurrently; each step below is one           *)
(* statement of the source, and the steps of the two contexts interleave.  *)
(***************************************************************************)
\* Length of the capture window in the model: fifo holds WindowLen samples
\* and fftData 2 * WindowLen cells, where the source has fftSize and
\* 2 * fftSize.
WindowLen == 2
\* Calls of pushNextSampleIntoFifo in a run: two full windows and one more.
MaxPushes == 2 * WindowLen + 1
\* Sample values the audio device delivers.
Samples == {1, 2}

\* A float of fifo or fftData: what wrote it last, and its value.
Uninit == [kind |-> "uninit", v |-> 0]
Zero == [kind |-> "zero", v |-> 0]
Raw(s) == [kind |-> "raw", v |-> s]
\* The value of lastRead before drawFrame has read anything.
NoRead == [kind |-> "none", v |-> 0]

VARIABLES
    fifo,               \* float fifo [fftSize]
    fftData,            \* float fftData [2 * fftSize]
    fifoIndex,          \* int fifoIndex
    nextFFTBlockReady,  \* bool nextFFTBlockReady
    cpc,                \* capture context: the statement it is at
    sample,             \* argument of the pushNextSampleIntoFifo call in progress
    ci,                 \* cell zeromem / memcpy has reached
    rpc,                \* render context: the statement it is at
    ri,                 \* cell drawFrame has reached
    repaintPending,     \* repaint() was called and paint has not run yet
    pushed,             \* history: the samples passed to pushNextSampleIntoFifo
    handoffs,           \* history: times the capture context set the ready flag
    analyses,           \* history: times drawNextFrameOfSpectrum ran
    lastRead,           \* history: the cell drawFrame read last
    readPartial         \* history: the render context read fftData during a write

handoffVars == <<fifo, fftData, fifoIndex, nextFFTBlockReady, cpc, sample, ci,
                 rpc, ri, repaintPending, pushed, handoffs, analyses, lastRead,
                 readPartial>>

VARIABLES
    drawnBar,           \* the Bar the loop of drawFrame has just worked on
    barHeight           \* float barHeight, as passed to fillRect for that bar

drawVars == <<drawnBar, barHeight>>

vars == <<handoffVars, scaleVars, drawVars>>

\* The capture context has begun to overwrite fftData and has not written
\* all of it yet.
CaptureWriting ==
    \/ cpc = "zeromem" /\ ci > 0
    \/ cpc = "memcpy"

(***************************************************************************)
(* pushNextSampleIntoFifo, statement by statement.                         *)
(***************************************************************************)
\* PushBranch with the test of the ready flag inverted.
PushBranchInverted(index, ready) ==
    IF index = WindowLen
    THEN IF ready THEN "zeromem" ELSE "reset"
    ELSE "store"

\* PushBranch without the test of the ready flag.
PushBranchUnguarded(index, ready) ==
    IF index = WindowLen THEN "zeromem" ELSE "store"

\* Where a call goes after the tests of fifoIndex and nextFFTBlockReady.
PushBranch(index, ready) ==
    IF index = WindowLen
    THEN IF ~ready THEN "zeromem" ELSE "reset"
    ELSE "store"

\* The call, and the tests  if (fifoIndex == fftSize)  and
\* if (!nextFFTBlockReady).
pushNextSampleIntoFifo(s) ==
    /\ cpc = "idle"
    /\ Len(pushed) < MaxPushes
    /\ sample' = s
    /\ pushed' = Append(pushed, s)
    /\ cpc' = PushBranch(fifoIndex, nextFFTBlockReady)
    /\ ci' = 0
    /\ UNCHANGED <<fifo, fftData, fifoIndex, nextFFTBlockReady, rpc, ri,
                   repaintPending, handoffs, analyses, lastRead, readPartial>>

\* juce::zeromem (fftData, sizeof (fftData)), one float at a time.
ZeroMem ==
    /\ cpc = "zeromem"
    /\ fftData' = [fftData EXCEPT ![ci] = Zero]
    /\ IF ci + 1 < 2 * WindowLen
       THEN ci' = ci + 1 /\ cpc' = cpc
       ELSE ci' = 0 /\ cpc' = "memcpy"
    /\ UNCHANGED <<fifo, fifoIndex, nextFFTBlockReady, sample, rpc, ri,
                   repaintPending, pushed, handoffs, analyses, lastRead,
                   readPartial>>

\* MemCpy with the source one float further on, wrapping round.
MemCpyRotated ==
    /\ cpc = "memcpy"
    /\ fftData' = [fftData EXCEPT ![ci] = fifo[(ci + 1) % WindowLen]]
    /\ IF ci + 1 < WindowLen
       THEN ci' = ci + 1 /\ cpc' = cpc
       ELSE ci' = 0 /\ cpc' = "flag"
    /\ UNCHANGED <<fifo, fifoIndex, nextFFTBlockReady, sample, rpc, ri,
                   repaintPending, pushed, handoffs, analyses, lastRead,
                   readPartial>>

\* memcpy (fftData, fifo, sizeof (fifo)), one float at a time.
MemCpy ==
    /\ cpc = "memcpy"
    /\ fftData' = [fftData EXCEPT ![ci] = fifo[ci]]
    /\ IF ci + 1 < WindowLen
       THEN ci' = ci + 1 /\ cpc' = cpc
       ELSE ci' = 0 /\ cpc' = "flag"
    /\ UNCHANGED <<fifo, fifoIndex, nextFFTBlockReady, sample, rpc, ri,
                   repaintPending, pushed, handoffs, analyses, lastRead,
                   readPartial>>

\* SetReady with the assignment of the flag left out.
SetReadySkipped ==
    /\ cpc = "flag"
    /\ cpc' = "reset"
    /\ UNCHANGED <<fifo, fftData, fifoIndex, nextFFTBlockReady, sample, ci, rpc,
                   ri, repaintPending, pushed, handoffs, analyses, lastRead,
                   readPartial>>

\* nextFFTBlockReady = true
SetReady ==
    /\ cpc = "flag"
    /\ nextFFTBlockReady' = TRUE
    /\ handoffs' = handoffs + 1
    /\ cpc' = "reset"
    /\ UNCHANGED <<fifo, fftData, fifoIndex, sample, ci, rpc, ri,
                   repaintPending, pushed, analyses, lastRead, readPartial>>

\* ResetIndex with the assignment left out.
ResetIndexSkipped ==
    /\ cpc = "reset"
    /\ cpc' = "store"
    /\ UNCHANGED <<fifo, fftData, fifoIndex, nextFFTBlockReady, sample, ci, rpc,
                   ri, repaintPending, pushed, handoffs, analyses, lastRead,
                   readPartial>>

\* fifoIndex = 0
ResetIndex ==
    /\ cpc = "reset"
    /\ fifoIndex' = 0
    /\ cpc' = "store"
    /\ UNCHANGED <<fifo, fftData, nextFFTBlockReady, sample, ci, rpc, ri,
                   repaintPending, pushed, handoffs, analyses, lastRead,
                   readPartial>>

\* fifo[fifoIndex++] = sample
StoreSample ==
    /\ cpc = "store"
    /\ fifo' = [fifo EXCEPT ![fifoIndex] = Raw(sample)]
    /\ fifoIndex' = fifoIndex + 1
    /\ cpc' = "idle"
    /\ UNCHANGED <<fftData, nextFFTBlockReady, sample, ci, rpc, ri,
                   repaintPending, pushed, handoffs, analyses, lastRead,
                   readPartial>>

Capture ==
    \/ \E s \in Samples : pushNextSampleIntoFifo(s)
    \/ ZeroMem
    \/ MemCpy
    \/ SetReady
    \/ ResetIndex
    \/ StoreSample

(***************************************************************************)
(* timerCallback, drawNextFrameOfSpectrum, paint and drawFrame.            *)
(***************************************************************************)
\* window.multiplyWithWindowingTable (fftData, fftSize): the first fftSize
\* floats are scaled by the window's table.
Windowed(data) ==
    [i \in DOMAIN data |->
        IF i < WindowLen THEN [kind |-> "windowed", v |-> data[i].v] ELSE data[i]]

RECURSIVE SumTo(_, _)
SumTo(data, n) == IF n = 0 THEN 0 ELSE data[n - 1].v + SumTo(data, n - 1)

\* forwardFFT.performFrequencyOnlyForwardTransform (fftData): every float is
\* replaced by a magnitude computed from the whole frame.
Magnitudes(data) ==
    [i \in DOMAIN data |-> [kind |-> "magnitude", v |-> SumTo(data, WindowLen)]]

\* timerCallback without the test of the ready flag.
timerCallbackUnguarded ==
    /\ rpc = "idle"
    /\ rpc' = "window"
    /\ UNCHANGED <<fifo, fftData, fifoIndex, nextFFTBlockReady, cpc, sample, ci,
                   ri, repaintPending, pushed, handoffs, analyses, lastRead,
                   readPartial>>

\* if (nextFFTBlockReady)
timerCallback ==
    /\ rpc = "idle"
    /\ IF nextFFTBlockReady THEN rpc' = "window" ELSE rpc' = rpc
    /\ UNCHANGED <<fifo, fftData, fifoIndex, nextFFTBlockReady, cpc, sample, ci,
                   ri, repaintPending, pushed, handoffs, analyses, lastRead,
                   readPartial>>

\* drawNextFrameOfSpectrum, first statement
ApplyWindow ==
    /\ rpc = "window"
    /\ fftData' = Windowed(fftData)
    /\ analyses' = analyses + 1
    /\ readPartial' = (readPartial \/ CaptureWriting)
    /\ rpc' = "fft"
    /\ UNCHANGED <<fifo, fifoIndex, nextFFTBlockReady, cpc, sample, ci, ri,
                   repaintPending, pushed, handoffs, lastRead>>

\* drawNextFrameOfSpectrum, second statement
PerformFFT ==
    /\ rpc = "fft"
    /\ fftData' = Magnitudes(fftData)
    /\ readPartial' = (readPartial \/ CaptureWriting)
    /\ rpc' = "clear"
    /\ UNCHANGED <<fifo, fifoIndex, nextFFTBlockReady, cpc, sample, ci, ri,
                   repaintPending, pushed, handoffs, analyses, lastRead>>

\* nextFFTBlockReady = false; repaint()
ClearReady ==
    /\ rpc = "clear"
    /\ nextFFTBlockReady' = FALSE
    /\ repaintPending' = TRUE
    /\ rpc' = "idle"
    /\ UNCHANGED <<fifo, fftData, fifoIndex, cpc, sample, ci, ri, pushed,
                   handoffs, analyses, lastRead, readPartial>>

\* The message thread answers repaint() with paint, which calls drawFrame;
\* timerCallback and paint run on that one thread and do not overlap.
paint ==
    /\ rpc = "idle"
    /\ repaintPending
    /\ repaintPending' = FALSE
    /\ rpc' = "draw"
    /\ ri' = 0
    /\ UNCHANGED <<fifo, fftData, fifoIndex, nextFFTBlockReady, cpc, sample, ci,
                   pushed, handoffs, analyses, lastRead, readPartial>>

\* drawFrame: the reads of fftData (getLevel and the loop over a bar's bins),
\* one bin at a time.  The bins the bars name lie in the first half of
\* fftData, cells 0 .. WindowLen - 1 of the model's buffer; nextFFTBlockReady
\* is not consulted.
drawFrame ==
    /\ rpc = "draw"
    /\ lastRead' = fftData[ri]
    /\ readPartial' = (readPartial \/ CaptureWriting)
    /\ IF ri + 1 < WindowLen
       THEN ri' = ri + 1 /\ rpc' = rpc
       ELSE ri' = 0 /\ rpc' = "idle"
    /\ UNCHANGED <<fifo, fftData, fifoIndex, nextFFTBlockReady, cpc, sample, ci,
                   repaintPending, pushed, handoffs, analyses>>

Render ==
    \/ timerCallback
    \/ ApplyWindow
    \/ PerformFFT
    \/ ClearReady
    \/ paint
    \/ drawFrame

\* The members other than fftData after construction, and both contexts at
\* rest.
HandoffAtRest ==
    /\ fifo = [i \in 0..(WindowLen - 1) |-> Uninit]
    /\ fifoIndex = 0
    /\ nextFFTBlockReady = FALSE
    /\ cpc = "idle"
    /\ sample = 0
    /\ ci = 0
    /\ rpc = "idle"
    /\ ri = 0
    /\ repaintPending = FALSE
    /\ pushed = << >>
    /\ handoffs = 0
    /\ analyses = 0
    /\ lastRead = NoRead
    /\ readPartial = FALSE

HandoffInit ==
    /\ fftData = [i \in 0..(2 * WindowLen - 1) |-> Uninit]
    /\ HandoffAtRest

\* No bar has been drawn.
NoBar == [posX |-> -1, dataIdx |-> 0, endIdx |-> 0, factor |-> <<0, 1>>]

DrawInit ==
    /\ drawnBar = NoBar
    /\ barHeight = 0

Init == HandoffInit /\ ScaleInit /\ DrawInit

\* A step of the audio callback, and a step of the message thread; neither
\* touches the scale, the bar table or the bars drawn.
CaptureStep == Capture /\ UNCHANGED <<scaleVars, drawVars>>
RenderStep == Render /\ UNCHANGED <<scaleVars, drawVars>>

Next ==
    \/ CaptureStep
    \/ RenderStep

Spec == Init /\ [][Next]_vars

\* The handoff reads neither _sampleRate nor the tables built from it, so
\* its progress is followed from one outcome of the constructor's read of
\* _sampleRate.
FairInit == Init /\ _sampleRate = 48000

\* The audio device keeps calling getNextAudioBlock and the message thread
\* keeps running the 60 Hz timer (startTimerHz (60)) and pending paints: a
\* step of either context that stays possible is taken in the end.
FairSpec ==
    FairInit /\ [][Next]_vars /\ WF_vars(CaptureStep) /\ WF_vars(RenderStep)

(***************************************************************************)
(* The bar table under configuration changes: prepareToPlay and further    *)
(* calls of buildTemperedScale, with the frame handoff left at rest.       *)
(***************************************************************************)
ScaleNext ==
    \/ \E sampleRate \in DeviceRates :
          prepareToPlay(sampleRate) /\ UNCHANGED <<handoffVars, drawVars>>
    \/ \E groupNotes \in GroupNotes :
          buildTemperedScale(groupNotes) /\ UNCHANGED <<handoffVars, drawVars>>

ScaleSpec == Init /\ [][ScaleNext]_vars

(***************************************************************************)
(* getLevel and the heights drawFrame computes, bar by bar, from a         *)
(* spectrum that drawNextFrameOfSpectrum has left in fftData.  Decibels    *)
(* are counted in hundredths of a decibel and heights in hundredths of a   *)
(* pixel, so that the arithmetic of getLevel is exact on the magnitudes    *)
(* used.                                                                   *)
(***************************************************************************)
\* Hundredths in a decibel, and in a pixel.
DbUnit == 100
PixelUnit == 100
\* getLocalBounds().getHeight() of the component sized by setSize (700, 500).
windowHeight == 500 * PixelUnit
\* auto mindB = -100.0f; auto maxdB = 0.0f;
mindB == -100 * DbUnit
maxdB == 0
\* 20 * log10 (2), in hundredths of a decibel.
DbPerOctave == 602

\* Magnitudes a bin of the spectrum takes: silence and powers of two up to
\* fftSize, the magnitude of a full-scale sine.
Gains == {0, 2, 256, fftSize}

RECURSIVE Log2(_)
Log2(n) == IF n <= 1 THEN 0 ELSE 1 + Log2(n \div 2)

\* juce::Decibels::gainToDecibels (gain), with its default floor of -100 dB,
\* for a gain that is 0 or a power of two.
gainToDecibels(gain) ==
    IF gain > 0
    THEN IF Log2(gain) * DbPerOctave > -100 * DbUnit
         THEN Log2(gain) * DbPerOctave ELSE -100 * DbUnit
    ELSE -100 * DbUnit

\* juce::jlimit (lowerLimit, upperLimit, valueToConstrain)
jlimit(lowerLimit, upperLimit, value) ==
    IF value < lowerLimit THEN lowerLimit
    ELSE IF upperLimit < value THEN upperLimit ELSE value

\* juce::jmap (sourceValue, sourceRangeMin, sourceRangeMax, targetRangeMin,
\* targetRangeMax)
jmap(value, sourceMin, sourceMax, targetMin, targetMax) ==
    targetMin + ((targetMax - targetMin) * (value - sourceMin))
                    \div (sourceMax - sourceMin)

\* float getLevel (int i, float height), reading the spectrum data.
getLevel(data, i, height) ==
    LET newGain == data[i].v
        db == jlimit(mindB, maxdB,
                     gainToDecibels(newGain) - gainToDecibels(fftSize))
    IN  jmap(db, mindB, maxdB, height, 0)

\* The loop  for (j = bar.dataIdx; j <= bar.endIdx; j++)  of drawFrame from
\* bin j on, with barHeight as it stands: the magnitude fftData[j] is
\* compared with barHeight, a height in pixels.
RECURSIVE RangeLoop(_, _, _, _, _)
RangeLoop(data, j, endIdx, height, level) ==
    IF j > endIdx THEN level
    ELSE RangeLoop(data, j + 1, endIdx, height,
                   IF data[j].v * PixelUnit > level
                   THEN getLevel(data, j, height) ELSE level)

\* The body of drawFrame's loop over allBars: the barHeight of one bar.
BarHeight(bar, data, height) ==
    IF bar.endIdx = 0
    THEN LET level == getLevel(data, bar.dataIdx, height)
             prevBar == IF bar.dataIdx > 0
                        THEN getLevel(data, bar.dataIdx - 1, height)
                        ELSE level
         IN  IF bar.factor[1] > 0
             THEN prevBar + ((level - prevBar) * bar.factor[1]) \div bar.factor[2]
             ELSE level
    ELSE RangeLoop(data, bar.dataIdx, bar.endIdx, height, 0)

\* Bins of the model's spectrum.
Bins == 0..(2 * WindowLen - 1)

\* Spectra performFrequencyOnlyForwardTransform can leave in fftData.
Spectra == [Bins -> {[kind |-> "magnitude", v |-> g] : g \in Gains}]

\* Bars over the model's spectrum: one bin (endIdx 0) with or without an
\* interpolation factor, or a range of bins dataIdx .. endIdx.
Bars ==
    {bar \in [posX : {0}, dataIdx : Bins, endIdx : Bins,
              factor : {<<0, 1>>, <<1, 2>>, <<2, 2>>}] :
        bar.endIdx = 0 \/ bar.endIdx > bar.dataIdx}

\* One turn of drawFrame's loop: barHeight is computed for the bar and
\* handed to fillRect.  A behaviour follows one bar of one spectrum.
drawFrameBar(bar) ==
    /\ rpc = "idle"
    /\ drawnBar = NoBar
    /\ drawnBar' = bar
    /\ barHeight' = BarHeight(bar, fftData, windowHeight)
    /\ UNCHANGED <<handoffVars, scaleVars>>

\* A spectrum is in fftData, as after a call of drawNextFrameOfSpectrum.
DrawSpecInit ==
    /\ fftData \in Spectra
    /\ HandoffAtRest
    /\ ScaleInit
    /\ DrawInit

DrawNext == \E bar \in Bars : drawFrameBar(bar)

DrawSpec == DrawSpecInit /\ [][DrawNext]_vars

(***************************************************************************)
(* Properties of the frame handoff, checked under Spec.                    *)
(***************************************************************************)
\* The window made of pushes first + 1 .. first + WindowLen, as fifo or
\* fftData holds it.
WindowOf(first) == [i \in 0..(WindowLen - 1) |-> Raw(pushed[first + i + 1])]

FrameIs(first) ==
    /\ \A i \in 0..(WindowLen - 1) : fftData[i] = WindowOf(first)[i]
    /\ \A i \in WindowLen..(2 * WindowLen - 1) : fftData[i] = Zero

\* Two full windows have been pushed, every push has returned, and the
\* render context has not consumed anything nor is inside a tick.
TwoWindowsPushedNoTick ==
    /\ cpc = "idle"
    /\ Len(pushed) = 2 * WindowLen
    /\ rpc = "idle"
    /\ analyses = 0

\* C1: the render context never reads fftData while a capture-side write of
\* it has started and not finished.
C1_NoPartialFrameRead == ~readPartial

\* C2 as stated: after 2N pushes and no tick, one frame is ready and it holds
\* the second window, pushes N+1 .. 2N.
C2_SecondWindowReady ==
    TwoWindowsPushedNoTick =>
        /\ nextFFTBlockReady
        /\ handoffs = 1
        /\ FrameIs(WindowLen)

\* C2 amended: a push never waits for the render context; after 2N pushes and
\* no tick, one frame is ready and it holds the first window, pushes 1 .. N,
\* while the second window is complete in fifo with the cursor at N.
C2_FirstWindowReady ==
    /\ cpc # "idle" =>
          ENABLED (ZeroMem \/ MemCpy \/ SetReady \/ ResetIndex \/ StoreSample)
    /\ TwoWindowsPushedNoTick =>
          /\ nextFFTBlockReady
          /\ handoffs = 1
          /\ FrameIs(0)
          /\ fifoIndex = WindowLen
          /\ fifo = WindowOf(WindowLen)

C2_Witness == TwoWindowsPushedNoTick /\ nextFFTBlockReady

\* Frames handed off and not yet consumed: the flag is cleared at the end of
\* the tick that analysed the frame.
Unconsumed ==
    handoffs - (analyses - (IF rpc \in {"fft", "clear"} THEN 1 ELSE 0))

\* C3: while the ready flag is true no step of pushNextSampleIntoFifo changes
\* fftData or the flag (a window completed then is dropped), and at most one
\* unconsumed frame exists.
C3_ReadyFrameUntouched ==
    /\ [](Unconsumed = (IF nextFFTBlockReady THEN 1 ELSE 0))
    /\ [][(nextFFTBlockReady /\ Capture) =>
            /\ fftData' = fftData
            /\ nextFFTBlockReady' = nextFFTBlockReady
            /\ handoffs' = handoffs]_vars

\* A window was completed while the first frame was still unconsumed: the
\* call took the branch that skips the copy.
C3_Witness ==
    /\ nextFFTBlockReady
    /\ cpc = "reset"
    /\ handoffs = 1
    /\ analyses = 0
    /\ Len(pushed) = 2 * WindowLen + 1

\* C4: drawNextFrameOfSpectrum runs only with the ready flag true, the flag is
\* false once every handed-off frame has been consumed, and the number of
\* analyses never exceeds the number of handoffs.
C4_AnalysisOnlyOfReadyFrame ==
    /\ rpc \in {"window", "fft", "clear"} => nextFFTBlockReady
    /\ analyses <= handoffs
    /\ (analyses = handoffs /\ rpc \notin {"window", "fft", "clear"})
          => ~nextFFTBlockReady

\* One frame was analysed once and the next one is waiting.
C4_Witness ==
    /\ analyses = 1
    /\ handoffs = 2
    /\ rpc = "idle"
    /\ nextFFTBlockReady

\* C5: the capture context leaves the buffer the transform wrote alone, so
\* every value drawFrame reads from fftData is transform output.
C5_DrawReadsTransformOutput == lastRead.kind \in {"none", "magnitude"}

\* C6 as stated: between operations the cursor is in [0, N).
C6_CursorBelowN == cpc = "idle" => fifoIndex \in 0..(WindowLen - 1)

\* C6 amended: the cursor is in [0, N] in every state, and the statement that
\* stores a sample finds it below N.
C6_CursorAtMostN ==
    /\ fifoIndex \in 0..WindowLen
    /\ cpc = "store" => fifoIndex < WindowLen

\* A full window waits in fifo between two pushes.
C6_Witness == cpc = "idle" /\ fifoIndex = WindowLen

(***************************************************************************)
(* Properties of the bar table, checked under ScaleSpec.                   *)
(***************************************************************************)
LastBuild == builds[Len(builds)]

\* Every call of buildTemperedScale so far read a sample rate a device
\* reports (a valid configuration).
ValidBuilds == \A k \in 1..Len(builds) : builds[k][1] \in DeviceRates

\* C7: the bar table is the one buildTemperedScale computes from the current
\* sample rate and grouping stride (stated for tables built from valid
\* sample rates).
C7_TableMatchesConfiguration ==
    ValidBuilds =>
    /\ temperedScale = ScaleAfterBuild(<< >>, LastBuild[2])
    /\ allBars = BarsAfterBuild(<< >>, << >>, _sampleRate, LastBuild[2])

\* C8: a call of buildTemperedScale with the (valid) configuration of the
\* previous call leaves temperedScale and allBars as they were.
C8_RebuildIdempotent ==
    [][(/\ ValidBuilds
        /\ Len(builds') = Len(builds) + 1
        /\ builds'[Len(builds')] = LastBuild)
          => (temperedScale' = temperedScale /\ allBars' = allBars)]_vars

\* C9: after every call of buildTemperedScale with a valid configuration,
\* first build or rebuild, there are as many bars as scale entries and the
\* bars' posX are 0, 1, ... in table order.
C9_PositionsAreIndices ==
    ValidBuilds =>
    /\ Len(allBars) = Len(temperedScale)
    /\ \A m \in 1..Len(allBars) : allBars[m].posX = m - 1

\* The maximal run of bars sharing bar m's dataIdx: its first and last bar.
RunFirst(bars, m) ==
    CHOOSE a \in 1..m :
        /\ \A j \in a..m : bars[j].dataIdx = bars[m].dataIdx
        /\ (a > 1 => bars[a - 1].dataIdx # bars[m].dataIdx)

RunLast(bars, m) ==
    CHOOSE b \in m..Len(bars) :
        /\ \A j \in m..b : bars[j].dataIdx = bars[m].dataIdx
        /\ (b < Len(bars) => bars[b + 1].dataIdx # bars[m].dataIdx)

\* Bar m's factor is (its place in its run) / (the run's length), or 0 in a
\* run of one bar.
RampFactor(bars, m) ==
    LET k == RunLast(bars, m) - RunFirst(bars, m) + 1
        place == m - RunFirst(bars, m) + 1
    IN  IF k = 1
        THEN bars[m].factor[1] = 0
        ELSE bars[m].factor[1] * k = place * bars[m].factor[2]

\* C10: in the table the constructor builds for a device sample rate, every
\* maximal run of k bars sharing a dataIdx, the last run included, has the
\* factors 1/k, 2/k, ..., k/k, and 0 when k = 1.
C10_RunsHaveRampFactors ==
    (Len(builds) = 1 /\ ValidBuilds)
        => \A m \in 1..Len(allBars) : RampFactor(allBars, m)

(***************************************************************************)
(* Properties of the heights drawFrame computes, checked under DrawSpec.   *)
(***************************************************************************)
\* The bins dataIdx .. endIdx of the bar drawn last.
DrawnRange == drawnBar.dataIdx .. drawnBar.endIdx

\* C11: peak-hold.  For a bar with endIdx > dataIdx the height drawFrame
\* passes to fillRect is getLevel of the loudest bin of dataIdx .. endIdx,
\* that is the least height over the range.  Stated for a range in which
\* some bin sounds; the range in silence is the case of C15.
C11_PeakHold ==
    (/\ drawnBar # NoBar
     /\ drawnBar.endIdx > drawnBar.dataIdx
     /\ \E k \in DrawnRange : fftData[k].v > 0) =>
        /\ \E j \in DrawnRange :
              /\ \A k \in DrawnRange : fftData[k].v <= fftData[j].v
              /\ barHeight = getLevel(fftData, j, windowHeight)
        /\ \A k \in DrawnRange : barHeight <= getLevel(fftData, k, windowHeight)

\* C15: floor mapping.  A bin of magnitude 0 has level windowHeight and a
\* bin at 0 dB after the reference offset has level 0; with every bin at 0
\* every bar drawn, of whichever kind, has height windowHeight.
C15_FloorMapping ==
    /\ \A i \in Bins :
          /\ fftData[i].v = 0 => getLevel(fftData, i, windowHeight) = windowHeight
          /\ fftData[i].v = fftSize => getLevel(fftData, i, windowHeight) = 0
    /\ (drawnBar # NoBar /\ \A i \in Bins : fftData[i].v = 0) =>
          barHeight = windowHeight

(***************************************************************************)
(* Further properties of the bar table, checked under ScaleSpec.           *)
(***************************************************************************)
\* C12: in the table buildTemperedScale produces, dataIdx does not decrease
\* along the table, and a nonzero endIdx is at least the bar's dataIdx.
C12_BinsNonDecreasing ==
    ValidBuilds =>
        /\ \A m \in 1..(Len(allBars) - 1) :
              allBars[m].dataIdx <= allBars[m + 1].dataIdx
        /\ \A m \in 1..Len(allBars) :
              allBars[m].endIdx # 0 => allBars[m].endIdx >= allBars[m].dataIdx

\* C13: a call of buildTemperedScale that finds a sample rate that is not
\* positive is rejected: it computes no bins and leaves temperedScale and
\* allBars as they were.
C13_InvalidRateRejected ==
    [][(Len(builds') = Len(builds) + 1 /\ builds'[Len(builds')][1] <= 0) =>
          (temperedScale' = temperedScale /\ allBars' = allBars)]_vars

\* C14: with a positive sample rate freqToBin returns at most
\* fftSize / 2 - 1 for every frequency of the scale, and every dataIdx and
\* endIdx of the table lies in 0 .. fftSize / 2 - 1.
C14_BinsBelowNyquist ==
    ValidBuilds =>
        /\ \A i \in 1..Len(temperedScale) :
              freqToBin(temperedScale[i], _sampleRate) <= fftSize \div 2 - 1
        /\ \A m \in 1..Len(allBars) :
              /\ allBars[m].dataIdx \in 0..(fftSize \div 2 - 1)
              /\ allBars[m].endIdx \in 0..(fftSize \div 2 - 1)

\* The bar the latest call of buildTemperedScale pushed for entry k of
\* temperedScale (k from 1): the call pushes one bar for every entry.
LatestBar(k) == allBars[Len(allBars) - Len(temperedScale) + k]

\* The bin of entry k of temperedScale at the rate the latest call used.
OwnBin(k) == freqToBin(temperedScale[k], LastBuild[1])

\* prevBin as the loop carries it out of the iteration for entry k: 0 before
\* the first, else the entry's bin, moved half way (rounded up) to the next
\* entry's bin when that is more than one bin away.
PrevBinAfter(k) ==
    IF k = 0 THEN 0
    ELSE LET bin == OwnBin(k)
             nextBin == IF k < Len(temperedScale) THEN OwnBin(k + 1) ELSE bin
         IN  IF nextBin - bin > 1 THEN bin + (nextBin - bin + 1) \div 2 ELSE bin

\* C16 as stated: a bar whose own bin is at most prevBin + 1 starts at
\* prevBin + 1, any other bar at its own bin; hence no bar starts at or
\* before the prevBin carried from the bar before it.
C16_StartForcedPastPrevBin ==
    ValidBuilds =>
        \A k \in 1..Len(temperedScale) :
            LET bin == OwnBin(k)
                prevBin == PrevBinAfter(k - 1)
            IN  /\ LatestBar(k).dataIdx =
                      (IF bin <= prevBin + 1 THEN prevBin + 1 ELSE bin)
                /\ LatestBar(k).dataIdx > prevBin

\* C16 as the code has it: with prevBin positive and the bar's own bin at
\* least prevBin + 1 the bar starts at prevBin + 1, otherwise at its own
\* bin; so a bar starts no later than its own bin, and after the first bar
\* no later than prevBin + 1, and it may start at prevBin itself.
C16_StartAtMostPastPrevBin ==
    \A k \in 1..Len(temperedScale) :
        LET bin == OwnBin(k)
            prevBin == PrevBinAfter(k - 1)
        IN  /\ LatestBar(k).dataIdx =
                  (IF prevBin > 0 /\ prevBin + 1 <= bin THEN prevBin + 1 ELSE bin)
            /\ LatestBar(k).dataIdx <= bin
            /\ prevBin > 0 => LatestBar(k).dataIdx <= prevBin + 1

\* A table built at a device rate in which one bar starts before its own bin
\* (at prevBin + 1) and another starts at the prevBin of the bar before it.
C16_Witness ==
    /\ ValidBuilds
    /\ \E k \in 1..Len(temperedScale) :
          LatestBar(k).dataIdx = PrevBinAfter(k - 1) + 1
          /\ LatestBar(k).dataIdx < OwnBin(k)
    /\ \E k \in 2..Len(temperedScale) :
          LatestBar(k).dataIdx = PrevBinAfter(k - 1)

\* C19: the ranges of adjacent bars do not overlap: the bar after a bar with
\* a nonzero endIdx starts past that endIdx.
C19_RangesDisjoint ==
    (ValidBuilds /\ Len(builds) = 1) =>
        \A m \in 1..(Len(allBars) - 1) :
            allBars[m].endIdx # 0 => allBars[m + 1].dataIdx > allBars[m].endIdx

(***************************************************************************)
(* Further properties of the frame handoff, checked under Spec and         *)
(* FairSpec.                                                               *)
(***************************************************************************)
\* Samples pushed before the call of pushNextSampleIntoFifo in progress.
PushedBefore == Len(pushed) - 1

\* C17: when the capture context sets nextFFTBlockReady, the first
\* WindowLen floats of fftData are the WindowLen samples pushed last before
\* the call, in push order, and the other floats are 0; and the call then
\* stores its own sample at cursor 0: between calls fifo holds, from cell 0
\* on, the samples pushed since the latest handoff attempt.
C17_HandoffIsLastWindow ==
    /\ [](cpc = "flag" => FrameIs(PushedBefore - WindowLen))
    /\ [][(~nextFFTBlockReady /\ nextFFTBlockReady') =>
            (cpc = "flag" /\ fftData' = fftData /\ fifoIndex = WindowLen)]_vars
    /\ [][(cpc = "reset" /\ cpc' = "store") => fifoIndex' = 0]_vars
    /\ []((cpc = "idle" /\ Len(pushed) > 0) =>
            /\ fifoIndex = (PushedBefore % WindowLen) + 1
            /\ \A i \in 0..(fifoIndex - 1) :
                  fifo[i] = Raw(pushed[Len(pushed) - fifoIndex + i + 1]))

\* The second window has been handed off, after the first was consumed, and
\* the call that handed it off has stored its sample at cursor 0.
C17_Witness ==
    /\ handoffs = 2
    /\ cpc = "idle"
    /\ fifoIndex = 1
    /\ FrameIs(WindowLen)
    /\ fifo[0] = Raw(pushed[2 * WindowLen + 1])

\* C18: no stall.  With both contexts scheduled, a ready frame is consumed
\* in the end (the flag goes false), and while the run has a window of
\* pushes left a state with the flag false is followed by the handoff of a
\* later window (the flag goes true, handoffs has grown by one).
C18_NoStall ==
    /\ nextFFTBlockReady ~> ~nextFFTBlockReady
    /\ \A h \in 0..(MaxPushes \div WindowLen) :
          (~nextFFTBlockReady /\ handoffs = h /\ Len(pushed) <= 2 * WindowLen)
              ~> (nextFFTBlockReady /\ handoffs = h + 1)

\* Two frames have been handed off and both have been consumed.
C18_Witness ==
    /\ handoffs = 2
    /\ analyses = 2
    /\ ~nextFFTBlockReady
    /\ rpc = "idle"
====
